---- MODULE Spec2Model ----
(***************************************************************************)
(* create_pdf_report of notebooks/07_generate_report.py as a state machine: *)
(* the metric enrichment of the county table (lines 34-56) followed by the  *)
(* seven page-drawing sections (lines 59-290) and the return (292-293).     *)
(*                                                                         *)
(* Numbers.  Columns whose values the code only adds, subtracts, averages   *)
(* and compares are exact rationals <<n, d>> (d > 0, lowest terms), with     *)
(* <<0, 0>> for NaN and <<1, 0>> for +inf.  clinics_per_100k is computed as  *)
(* the code computes it, in IEEE-754 binary64 with round-to-nearest-even:   *)
(* a binary64 value is [k, m, e], m the 53 mantissa bits (most significant  *)
(* first) and the value m * 2^e.                                            *)
(***************************************************************************)
EXTENDS Integers, Sequences, FiniteSets, TLC

-----------------------------------------------------------------------------
(* Exact rationals with NaN and +inf (all inputs are non-negative).         *)

NaN == <<0, 0>>
Inf == <<1, 0>>

RECURSIVE GCD(_, _)
GCD(a, b) == IF b = 0 THEN a ELSE GCD(b, a % b)

Norm(n, d) == LET g == GCD(n, d) IN <<n \div g, d \div g>>

Fin(n) == <<n, 1>>

IsNaN(q) == q = NaN
IsFinite(q) == q[2] > 0

\* a / b as numpy divides float64 arrays: x/0 is inf, 0/0 is nan
QDiv(a, b) ==
    IF IsNaN(a) \/ IsNaN(b) THEN NaN
    ELSE IF a = Inf THEN (IF b = Inf THEN NaN ELSE Inf)
    ELSE IF b = Inf THEN Fin(0)
    ELSE IF b[1] = 0 THEN (IF a[1] = 0 THEN NaN ELSE Inf)
    ELSE Norm(a[1] * b[2], a[2] * b[1])

QMul(a, b) ==
    IF IsNaN(a) \/ IsNaN(b) THEN NaN
    ELSE IF a = Inf \/ b = Inf
         THEN (IF a[1] = 0 \/ b[1] = 0 THEN NaN ELSE Inf)
    ELSE Norm(a[1] * b[1], a[2] * b[2])

\* a - b for finite a >= b
QSub(a, b) == Norm(a[1] * b[2] - b[1] * a[2], a[2] * b[2])

\* IEEE comparisons: every comparison with NaN is false
QLeq(a, b) ==
    /\ ~IsNaN(a) /\ ~IsNaN(b)
    /\ \/ b = Inf
       \/ a # Inf /\ a[1] * b[2] <= b[1] * a[2]

QLess(a, b) == QLeq(a, b) /\ a # b

-----------------------------------------------------------------------------
(* IEEE-754 binary64, non-negative values.  The operators work on the bits  *)
(* in 32-bit pieces: the operands of FDivInt stay below 2^22 and the        *)
(* multiplier of FMulInt below 2^17.                                        *)

MantBits == 53

FZero == [k |-> "zero", m |-> <<>>, e |-> 0]
FNaN  == [k |-> "nan",  m |-> <<>>, e |-> 0]
FInf  == [k |-> "inf",  m |-> <<>>, e |-> 0]

Pow2(i) ==
    <<1, 2, 4, 8, 16, 32, 64, 128, 256, 512, 1024, 2048, 4096, 8192, 16384,
      32768, 65536, 131072, 262144, 524288, 1048576, 2097152, 4194304,
      8388608, 16777216, 33554432, 67108864, 134217728, 268435456,
      536870912, 1073741824>>[i + 1]

\* the number of bits of n >= 0
BitLen(n) == Cardinality({i \in 0..30 : Pow2(i) <= n})

\* bit i of n, bit 0 the least significant
BitOf(n, i) == IF i > 30 THEN 0 ELSE (n \div Pow2(i)) % 2

\* the low len bits of n, most significant first
LowBits(n, len) == [i \in 1..len |-> BitOf(n, len - i)]

\* the bits of n > 0, most significant first
IntBits(n) == LowBits(n, BitLen(n))

\* the number a bit sequence of at most 30 bits stands for
RECURSIVE BitsToInt(_)
BitsToInt(bs) ==
    IF bs = <<>> THEN 0
    ELSE 2 * BitsToInt(SubSeq(bs, 1, Len(bs) - 1)) + bs[Len(bs)]

Zeros(len) == [i \in 1..len |-> 0]

\* bits + 1, same length; an all-ones input wraps to all zeros
IncBits(bs) ==
    LET zs == {i \in 1..Len(bs) : bs[i] = 0}
        j  == IF zs = {} THEN 0 ELSE CHOOSE i \in zs : \A i2 \in zs : i2 <= i
    IN [i \in 1..Len(bs) |-> IF i < j THEN bs[i] ELSE IF i = j THEN 1 ELSE 0]

\* bits - 1, same length (bits > 0)
DecBits(bs) ==
    LET os == {i \in 1..Len(bs) : bs[i] = 1}
        j  == CHOOSE i \in os : \A i2 \in os : i2 <= i
    IN [i \in 1..Len(bs) |-> IF i < j THEN bs[i] ELSE IF i = j THEN 0 ELSE 1]

\* round the value bits * 2^e (bits[1] = 1, sticky: a non-zero part below
\* the last bit) to 53 bits, nearest, ties to even
RoundBits(bits, e, sticky) ==
    IF Len(bits) <= MantBits
    THEN [k |-> "num", m |-> bits \o Zeros(MantBits - Len(bits)),
          e |-> e - (MantBits - Len(bits))]
    ELSE LET keep  == SubSeq(bits, 1, MantBits)
             guard == bits[MantBits + 1]
             rest  == sticky \/ \E i \in (MantBits + 2)..Len(bits) : bits[i] = 1
             drop  == Len(bits) - MantBits
             up    == guard = 1 /\ (rest \/ keep[MantBits] = 1)
             inc   == IncBits(keep)
         IN IF ~up THEN [k |-> "num", m |-> keep, e |-> e + drop]
            ELSE IF inc[1] = 1 THEN [k |-> "num", m |-> inc, e |-> e + drop]
            ELSE [k |-> "num", m |-> <<1>> \o Zeros(MantBits - 1), e |-> e + drop + 1]

FromInt(n) == IF n = 0 THEN FZero ELSE RoundBits(IntBits(n), 0, FALSE)

\* long division, nine quotient bits at a time: the 54 bits after the leading
\* one of r/p (p <= r < 2p), and the remainder left: <<bits, remainder>>
DivSteps(r, p) ==
    LET r1 == r - p
        d1 == (r1 * 512) \div p   r2 == (r1 * 512) % p
        d2 == (r2 * 512) \div p   r3 == (r2 * 512) % p
        d3 == (r3 * 512) \div p   r4 == (r3 * 512) % p
        d4 == (r4 * 512) \div p   r5 == (r4 * 512) % p
        d5 == (r5 * 512) \div p   r6 == (r5 * 512) % p
        d6 == (r6 * 512) \div p   r7 == (r6 * 512) % p
    IN <<LowBits(d1, 9) \o LowBits(d2, 9) \o LowBits(d3, 9) \o
         LowBits(d4, 9) \o LowBits(d5, 9) \o LowBits(d6, 9), r7>>

\* the least s with c * 2^s >= p
ShiftUp(c, p) ==
    IF c >= p THEN 0
    ELSE LET s == BitLen(p) - BitLen(c)
         IN IF c * Pow2(s) >= p THEN s ELSE s + 1

\* the greatest s with p * 2^s <= c (c >= p)
ShiftDown(c, p) ==
    LET s == BitLen(c) - BitLen(p)
    IN IF p * Pow2(s) <= c THEN s ELSE s - 1

\* c / p for integers c, p >= 0, as float64 division gives it
FDivInt(c, p) ==
    IF p = 0 THEN (IF c = 0 THEN FNaN ELSE FInf)
    ELSE IF c = 0 THEN FZero
    ELSE LET up   == ShiftUp(c, p)
             down == IF up = 0 THEN ShiftDown(c, p) ELSE 0
             ds   == DivSteps(c * Pow2(up), p * Pow2(down))
         IN RoundBits(<<1>> \o ds[1], down - up - (MantBits + 1), ds[2] # 0)

\* the 53 bits m times k, in 13-bit limbs: the exact product's bits
MulSteps(m, k) ==
    LET l0 == BitsToInt(SubSeq(m, 41, 53))
        l1 == BitsToInt(SubSeq(m, 28, 40))
        l2 == BitsToInt(SubSeq(m, 15, 27))
        l3 == BitsToInt(SubSeq(m, 1, 14))
        t0 == l0 * k
        t1 == l1 * k + t0 \div 8192
        t2 == l2 * k + t1 \div 8192
        t3 == l3 * k + t2 \div 8192
    IN IntBits(t3) \o LowBits(t2 % 8192, 13) \o LowBits(t1 % 8192, 13)
                   \o LowBits(t0 % 8192, 13)

\* f * k for an integer 0 < k < 2^17, as float64 multiplication gives it
FMulInt(f, k) ==
    IF f.k # "num" THEN f
    ELSE RoundBits(MulSteps(f.m, k), f.e, FALSE)

BitsLess(a, b) ==
    \E i \in 1..Len(a) : a[i] < b[i] /\ \A j \in 1..(i - 1) : a[j] = b[j]

\* IEEE comparisons of non-negative values: every comparison with NaN is false
FLess(a, b) ==
    /\ a.k # "nan" /\ b.k # "nan" /\ a # b
    /\ a.k # "inf"
    /\ \/ b.k = "inf"
       \/ a.k = "zero"
       \/ /\ a.k = "num" /\ b.k = "num"
          /\ \/ a.e < b.e
             \/ a.e = b.e /\ BitsLess(a.m, b.m)

FLeq(a, b) == a.k # "nan" /\ b.k # "nan" /\ (a = b \/ FLess(a, b))

\* the next binary64 value above / below a positive finite f
FSucc(f) ==
    LET inc == IncBits(f.m)
    IN IF inc[1] = 1 THEN [f EXCEPT !.m = inc]
       ELSE [f EXCEPT !.m = <<1>> \o Zeros(MantBits - 1), !.e = f.e + 1]

FPred(f) ==
    LET dec == DecBits(f.m)
    IN IF dec[1] = 1 THEN [f EXCEPT !.m = dec]
       ELSE [f EXCEPT !.m = [i \in 1..MantBits |-> 1], !.e = f.e - 1]

-----------------------------------------------------------------------------
(* The county table: a function from the names of the columns present to    *)
(* the column's values, one per row.  'c' in df.columns is c \in DOMAIN df. *)

VARIABLES
    df,               \* the table create_pdf_report works on (it is the caller's)
    entry,            \* the table as it was on entry
    pc,               \* the section of create_pdf_report about to run
    pages,            \* the pages saved to the PdfPages document so far
    stdout,           \* the lines printed so far
    clinic_presence,  \* the local bound at line 149
    top_underserved,  \* the rows drawn on the ranking page (index labels)
    top_states        \* the rows drawn on the state page

vars == <<df, entry, pc, pages, stdout, clinic_presence, top_underserved, top_states>>

HealthVars == {"stroke", "physical_inactivity", "self_care_disability", "social_isolation"}

DefaultPopulation == 100000
Per100k == 100000
TopCounties == 20
TopStates == 15

\* a local name not bound yet (a bound clinic_presence has a row per county)
Unbound == <<>>

NRows(d) == Len(d[CHOOSE c \in DOMAIN d : TRUE])

\* df[c] = column: adds the column, or replaces it when it is there
SetColumn(d, c, column) == [x \in DOMAIN d \cup {c} |-> IF x = c THEN column ELSE d[x]]

RECURSIVE SumOver(_, _, _)
SumOver(d, cs, i) ==
    IF cs = {} THEN 0
    ELSE LET c == CHOOSE x \in cs : TRUE
         IN d[c][i] + SumOver(d, cs \ {c}, i)

\* lines 35-39: the row mean of the health variables that are present
BurdenColumn(d, available_vars) ==
    [i \in 1..NRows(d) |-> Norm(SumOver(d, available_vars, i), Cardinality(available_vars))]

\* as WithBurden, but deriving the score only when all four variables are there
WithBurdenAllVars(d) ==
    IF "health_burden_score" \notin DOMAIN d /\ HealthVars \subseteq DOMAIN d
    THEN SetColumn(d, "health_burden_score", BurdenColumn(d, HealthVars))
    ELSE d

\* as WithBurden, but without the test that the column is absent
WithBurdenAlways(d) ==
    LET available_vars == HealthVars \cap DOMAIN d
    IN IF available_vars # {}
       THEN SetColumn(d, "health_burden_score", BurdenColumn(d, available_vars))
       ELSE d

WithBurden(d) ==
    LET available_vars == HealthVars \cap DOMAIN d
    IN IF "health_burden_score" \notin DOMAIN d /\ available_vars # {}
       THEN SetColumn(d, "health_burden_score", BurdenColumn(d, available_vars))
       ELSE d

\* lines 46-47: (clinic_count / population) * 100000, then inf replaced by 0
ReplaceInf(f) == IF f.k = "inf" THEN FZero ELSE f

\* as Density, per 1000 residents
DensityPerThousand(clinic_count, population) ==
    FMulInt(FDivInt(clinic_count, population), 1000)

Density(clinic_count, population) == FMulInt(FDivInt(clinic_count, population), Per100k)

ClinicsColumn(d) ==
    [i \in 1..NRows(d) |-> ReplaceInf(Density(d["clinic_count"][i], d["population"][i]))]

\* Series.min() and Series.max() of a column of finite values
ColumnMin(column) ==
    CHOOSE v \in {column[i] : i \in DOMAIN column} :
        \A i \in DOMAIN column : QLeq(v, column[i])

ColumnMax(column) ==
    CHOOSE v \in {column[i] : i \in DOMAIN column} :
        \A i \in DOMAIN column : QLeq(column[i], v)

\* lines 50-53: (score - min) / (max - min)
NeedColumn(d) ==
    LET score == d["health_burden_score"]
        lo == ColumnMin(score)
        hi == ColumnMax(score)
    IN [i \in 1..NRows(d) |-> QDiv(QSub(score[i], lo), QSub(hi, lo))]

\* line 56: health_need * population
GapColumn(d) ==
    [i \in 1..NRows(d) |-> QMul(d["health_need"][i], Fin(d["population"][i]))]

-----------------------------------------------------------------------------
(* The page sections.                                                       *)

Sections == <<"cover", "executive_summary", "key_statistics", "box_plots",
              "top_underserved", "state_summary", "recommendations">>

\* as SectionColumns, had the pages before the ranking left the burden score
\* out when the table has none
SectionColumnsGuarded(section) ==
    CASE section \in {"cover", "recommendations"} -> {}
      [] section = "executive_summary" -> {"clinic_count", "svi_overall", "svi_socioeconomic"}
      [] section = "key_statistics" -> {"clinic_count", "svi_overall"}
      [] section = "box_plots" -> {"svi_overall", "clinic_count"}
      [] section = "top_underserved" ->
            {"county_full", "state_full", "pop_adjusted_gap", "health_burden_score",
             "clinic_count", "population"}
      [] section = "state_summary" ->
            {"state_full", "clinic_count", "population", "health_burden_score",
             "svi_overall"}

\* the columns a section subscripts; a missing one raises KeyError
SectionColumns(section) ==
    CASE section = "cover" -> {}
      [] section = "executive_summary" ->
            {"clinic_count", "svi_overall", "svi_socioeconomic", "health_burden_score"}
      [] section = "key_statistics" ->
            {"clinic_count", "health_burden_score", "svi_overall"}
      [] section = "box_plots" -> {"svi_overall", "clinic_count", "health_burden_score"}
      [] section = "top_underserved" ->
            {"county_full", "state_full", "pop_adjusted_gap", "health_burden_score",
             "clinic_count", "population"}
      [] section = "state_summary" ->
            {"state_full", "clinic_count", "population", "health_burden_score",
             "svi_overall"}
      [] section = "recommendations" -> {}

\* as SectionUses, had the ranking taken its bar colours from clinic_presence
SectionUsesReuse(section) ==
    CASE section = "recommendations" -> {}
      [] section \in {"box_plots", "top_underserved"} -> {"df", "clinic_presence"}
      [] OTHER -> {"df"}

\* the names a section reads that it does not bind itself: the table, and in
\* the box plots (line 177) the clinic_presence of line 149
SectionUses(section) ==
    CASE section = "recommendations" -> {}
      [] section = "box_plots" -> {"df", "clinic_presence"}
      [] OTHER -> {"df"}

Page(section) == [name |-> section, uses |-> SectionUses(section)]

\* line 149
PresenceCategory(x) ==
    IF x = 0 THEN "No Clinics" ELSE IF x <= 2 THEN "1-2 Clinics" ELSE "3+ Clinics"

ClinicPresence(d) == [i \in 1..NRows(d) |-> PresenceCategory(d["clinic_count"][i])]

\* the j-th smallest value of a column of integers
Kth(column, j) ==
    CHOOSE v \in {column[i] : i \in DOMAIN column} :
        /\ Cardinality({i \in DOMAIN column : column[i] < v}) < j
        /\ j <= Cardinality({i \in DOMAIN column : column[i] <= v})

\* four times the k-th quartile of the column (Series.quantile, linear
\* interpolation between the two nearest order statistics)
QuartileEdge4(column, k) ==
    LET h  == (Len(column) - 1) * k
        f  == h \div 4
        r  == h % 4
        lo == Kth(column, f + 1)
        hi == IF r = 0 THEN lo ELSE Kth(column, f + 2)
    IN 4 * lo + r * (hi - lo)

QuartileLabels == <<"Low SVI (Q1)", "Medium-Low SVI (Q2)", "Medium-High SVI (Q3)", "High SVI (Q4)">>

\* pd.qcut raises ValueError unless the five bin edges are distinct
QcutRaises(column) ==
    \E k \in 0..3 : QuartileEdge4(column, k) = QuartileEdge4(column, k + 1)

\* lines 167-168: right-closed bins, the lowest edge included
QcutColumn(column) ==
    [i \in DOMAIN column |->
        LET k == CHOOSE k \in 1..4 :
                    /\ 4 * column[i] <= QuartileEdge4(column, k)
                    /\ \A k2 \in 1..(k - 1) : 4 * column[i] > QuartileEdge4(column, k2)
        IN QuartileLabels[k]]

\* the positions 1..Len(keys) in descending order of key, ties in their
\* original order, missing (NaN) keys last in their original order; less
\* holds the pairs <<i, j>> with keys[i] < keys[j], absent the positions of
\* the missing keys
OrderDesc(keys, less, absent) ==
    LET idx == DOMAIN keys
        good == idx \ absent
        pos(i) ==
            IF i \in good
            THEN 1 + Cardinality({j \in good :
                        <<i, j>> \in less \/ (keys[j] = keys[i] /\ j < i)})
            ELSE Cardinality(good) + 1 + Cardinality({j \in absent : j < i})
    IN [q \in 1..Len(keys) |-> CHOOSE i \in idx : pos(i) = q]

Min(a, b) == IF a <= b THEN a ELSE b

HeadRows(sq, n) == SubSeq(sq, 1, Min(n, Len(sq)))

\* line 191: df.nlargest(20, 'pop_adjusted_gap'), as the index labels kept
NLargest(d, n, column) ==
    LET keys == d[column]
        less == {ij \in (DOMAIN keys) \X (DOMAIN keys) : QLess(keys[ij[1]], keys[ij[2]])}
        absent == {i \in DOMAIN keys : IsNaN(keys[i])}
    IN HeadRows(OrderDesc(keys, less, absent), n)

RECURSIVE SumRows(_, _, _)
SumRows(column, rows, upto) ==
    IF upto = 0 THEN 0
    ELSE SumRows(column, rows, upto - 1) + (IF upto \in rows THEN column[upto] ELSE 0)

QAdd(a, b) ==
    IF IsNaN(a) \/ IsNaN(b) THEN NaN
    ELSE IF a = Inf \/ b = Inf THEN Inf
    ELSE Norm(a[1] * b[2] + b[1] * a[2], a[2] * b[2])

RECURSIVE QSumRows(_, _, _)
QSumRows(column, rows, upto) ==
    IF upto = 0 THEN Fin(0)
    ELSE QAdd(QSumRows(column, rows, upto - 1),
              IF upto \in rows THEN column[upto] ELSE Fin(0))

\* line 226: the state's density, from the summed columns
StateDensity(clinic_sum, population_sum) == Density(clinic_sum, population_sum)

\* lines 218-226: one row per state_full value, in ascending order of it
StateStats(d) ==
    LET states == {d["state_full"][i] : i \in 1..NRows(d)}
        ordered == [j \in 1..Cardinality(states) |->
                        CHOOSE st \in states : Cardinality({s2 \in states : s2 < st}) = j - 1]
        rowsOf(st) == {i \in 1..NRows(d) : d["state_full"][i] = st}
        row(st) ==
            LET clinic_sum == SumRows(d["clinic_count"], rowsOf(st), NRows(d))
                population_sum == SumRows(d["population"], rowsOf(st), NRows(d))
            IN [state_full |-> st,
                clinic_count |-> clinic_sum,
                population |-> population_sum,
                health_burden_score |->
                    QDiv(QSumRows(d["health_burden_score"], rowsOf(st), NRows(d)),
                         Fin(Cardinality(rowsOf(st)))),
                svi_overall |->
                    Norm(SumRows(d["svi_overall"], rowsOf(st), NRows(d)),
                         Cardinality(rowsOf(st))),
                clinics_per_100k |-> StateDensity(clinic_sum, population_sum)]
    IN [j \in 1..Cardinality(states) |-> row(ordered[j])]

FMissing(f) == f.k = "nan"

\* line 227: sort_values('clinics_per_100k', ascending=False).head(15)
TopStateRows(state_stats) ==
    LET keys == [j \in DOMAIN state_stats |-> state_stats[j].clinics_per_100k]
        less == {ij \in (DOMAIN keys) \X (DOMAIN keys) : FLess(keys[ij[1]], keys[ij[2]])}
        absent == {j \in DOMAIN keys : FMissing(keys[j])}
        order == HeadRows(OrderDesc(keys, less, absent), TopStates)
    IN [q \in DOMAIN order |-> state_stats[order[q]]]

-----------------------------------------------------------------------------
(* The tables create_pdf_report is called with.                             *)

BaseColumns == {"clinic_count", "svi_overall", "svi_socioeconomic", "county_full", "state_full"}
DerivedColumns == {"health_burden_score", "clinics_per_100k", "health_need", "pop_adjusted_gap"}
OptionalColumns == DerivedColumns \cup HealthVars \cup {"population", "svi_quartile"}

MaxCounties == 2
MaxLargeCounties == 22

ClinicValues == <<0, 2, 7>>
PopulationValues == <<0, 50000, 100000>>
ScoreValues == <<10, 20>>

\* how much each health variable weighs a county's score in the input data
VarWeight(c) ==
    CASE c = "stroke" -> 1
      [] c = "physical_inactivity" -> 2
      [] c = "self_care_disability" -> 3
      [] c = "social_isolation" -> 6

\* the input table with the columns `present`; clinic, population, score,
\* svi and state give the rows' raw figures, and a metric column that an
\* earlier notebook stored holds that notebook's figures
InputTable(n, present, clinic, population, score, svi, state) ==
    [c \in present |-> [i \in 1..n |->
        CASE c = "clinic_count" -> clinic[i]
          [] c = "population" -> population[i]
          [] c \in HealthVars -> VarWeight(c) * score[i]
          [] c = "health_burden_score" -> Fin(score[i])
          [] c \in {"svi_overall", "svi_socioeconomic"} -> svi[i]
          [] c = "county_full" -> i
          [] c = "state_full" -> state[i]
          [] c = "clinics_per_100k" -> FromInt(i)
          [] c = "health_need" -> Norm(i, n + 1)
          [] c = "pop_adjusted_gap" -> Fin((3 * i) % 4)
          [] c = "svi_quartile" -> "unlabelled"]]

Start(table) ==
    /\ df = table
    /\ entry = table
    /\ pc = "burden"
    /\ pages = <<>>
    /\ stdout = <<>>
    /\ clinic_presence = Unbound
    /\ top_underserved = <<>>
    /\ top_states = <<>>

\* small tables, every combination of raw figures
InitValues ==
    \E n \in 1..MaxCounties :
    \E clinic \in [1..n -> {ClinicValues[j] : j \in 1..3}] :
    \E population \in [1..n -> {PopulationValues[j] : j \in 1..2}] :
    \E score \in [1..n -> {ScoreValues[j] : j \in 1..2}] :
    \E groups \in 1..n :
    \E given \in SUBSET {"population"} :
        Start(InputTable(n, BaseColumns \cup HealthVars \cup given,
                         clinic, population, score,
                         [i \in 1..n |-> 25 * i],
                         [i \in 1..n |-> ((i - 1) % groups) + 1]))

\* every combination of optional columns, with at most one base column
\* missing, and with svi_overall distinct or the same in every county
InitColumns ==
    \E given \in SUBSET OptionalColumns :
    \E base \in {BaseColumns} \cup {BaseColumns \ {c} : c \in BaseColumns} :
    \E step \in {0, 25} :
        Start(InputTable(MaxCounties, base \cup given,
                         [i \in 1..MaxCounties |-> ClinicValues[(i % 3) + 1]],
                         [i \in 1..MaxCounties |-> PopulationValues[(i % 3) + 1]],
                         [i \in 1..MaxCounties |-> ScoreValues[(i % 2) + 1]],
                         [i \in 1..MaxCounties |-> step * i],
                         [i \in 1..MaxCounties |-> i]))

\* tables with more counties than the ranking page shows and more states
\* than the state page shows; the raw figures repeat with the periods a, b
\* and by to the population mode
InitLarge ==
    \E n \in (TopCounties + 1)..MaxLargeCounties :
    \E a \in 1..2 :
    \E b \in 0..1 :
    \E by \in {"row", "state"} :
    \E groups \in {1, TopStates, TopStates + 1, n} :
    \E given \in SUBSET {"population", "pop_adjusted_gap"} :
        LET state == [i \in 1..n |-> ((i - 1) % groups) + 1]
        IN Start(InputTable(n, BaseColumns \cup HealthVars \cup given,
                            [i \in 1..n |-> ClinicValues[((a * i) % 3) + 1]],
                            [i \in 1..n |-> PopulationValues[
                                ((IF by = "row" THEN i ELSE state[i]) % 3) + 1]],
                            [i \in 1..n |-> ScoreValues[((b * i) % 2) + 1]],
                            [i \in 1..n |-> 5 * i],
                            state))

Init == InitValues \/ InitColumns \/ InitLarge

-----------------------------------------------------------------------------
(* create_pdf_report, one action per section.  An exception leaves the      *)
(* function (pc = "raised"); PdfPages closes the document on the way out.   *)

LacksColumn(d, section) == SectionColumns(section) \ DOMAIN d # {}

SavePage(section) == pages' = Append(pages, Page(section))

\* lines 35-39
EnsureBurden ==
    /\ pc = "burden"
    /\ df' = WithBurden(df)
    /\ pc' = "population"
    /\ UNCHANGED <<entry, pages, stdout, clinic_presence, top_underserved, top_states>>

\* lines 41-43
EnsurePopulation ==
    /\ pc = "population"
    /\ IF "population" \notin DOMAIN df
       THEN /\ stdout' = Append(stdout, "Warning: Population data not found. Some metrics may be unavailable.")
            /\ df' = SetColumn(df, "population", [i \in 1..NRows(df) |-> DefaultPopulation])
       ELSE UNCHANGED <<stdout, df>>
    /\ pc' = "clinics"
    /\ UNCHANGED <<entry, pages, clinic_presence, top_underserved, top_states>>

\* lines 45-47
EnsureClinics ==
    /\ pc = "clinics"
    /\ IF "clinics_per_100k" \notin DOMAIN df /\ "population" \in DOMAIN df
       THEN IF "clinic_count" \in DOMAIN df
            THEN df' = SetColumn(df, "clinics_per_100k", ClinicsColumn(df)) /\ pc' = "need"
            ELSE pc' = "raised" /\ UNCHANGED df
       ELSE pc' = "need" /\ UNCHANGED df
    /\ UNCHANGED <<entry, pages, stdout, clinic_presence, top_underserved, top_states>>

\* lines 49-53
EnsureNeed ==
    /\ pc = "need"
    /\ IF "health_need" \notin DOMAIN df /\ "health_burden_score" \in DOMAIN df
       THEN df' = SetColumn(df, "health_need", NeedColumn(df))
       ELSE UNCHANGED df
    /\ pc' = "gap"
    /\ UNCHANGED <<entry, pages, stdout, clinic_presence, top_underserved, top_states>>

\* lines 55-56
EnsureGap ==
    /\ pc = "gap"
    /\ IF "pop_adjusted_gap" \notin DOMAIN df /\ "health_need" \in DOMAIN df
       THEN df' = SetColumn(df, "pop_adjusted_gap", GapColumn(df))
       ELSE UNCHANGED df
    /\ pc' = "cover"
    /\ UNCHANGED <<entry, pages, stdout, clinic_presence, top_underserved, top_states>>

\* lines 61-72
CoverPage ==
    /\ pc = "cover"
    /\ SavePage("cover")
    /\ pc' = "executive_summary"
    /\ UNCHANGED <<df, entry, stdout, clinic_presence, top_underserved, top_states>>

\* lines 74-112: the figures of the summary text are formatted into the page
ExecutiveSummary ==
    /\ pc = "executive_summary"
    /\ IF LacksColumn(df, "executive_summary")
       THEN pc' = "raised" /\ UNCHANGED pages
       ELSE SavePage("executive_summary") /\ pc' = "key_statistics"
    /\ UNCHANGED <<df, entry, stdout, clinic_presence, top_underserved, top_states>>

\* lines 114-160
KeyStatistics ==
    /\ pc = "key_statistics"
    /\ IF LacksColumn(df, "key_statistics")
       THEN pc' = "raised" /\ UNCHANGED <<pages, clinic_presence>>
       ELSE /\ clinic_presence' = ClinicPresence(df)
            /\ SavePage("key_statistics")
            /\ pc' = "box_plots"
    /\ UNCHANGED <<df, entry, stdout, top_underserved, top_states>>

\* lines 162-187: line 167 stores svi_quartile before lines 169 and 177 read
\* clinic_count, health_burden_score and clinic_presence
BoxPlots ==
    /\ pc = "box_plots"
    /\ IF "svi_overall" \notin DOMAIN df \/ QcutRaises(df["svi_overall"])
       THEN pc' = "raised" /\ UNCHANGED <<df, pages>>
       ELSE /\ df' = SetColumn(df, "svi_quartile", QcutColumn(df["svi_overall"]))
            /\ IF LacksColumn(df, "box_plots") \/ clinic_presence = Unbound
               THEN pc' = "raised" /\ UNCHANGED pages
               ELSE SavePage("box_plots") /\ pc' = "top_underserved"
    /\ UNCHANGED <<entry, stdout, clinic_presence, top_underserved, top_states>>

\* lines 189-215
TopUnderserved ==
    /\ pc = "top_underserved"
    /\ IF "pop_adjusted_gap" \in DOMAIN df
       THEN IF LacksColumn(df, "top_underserved")
            THEN pc' = "raised" /\ UNCHANGED <<pages, top_underserved>>
            ELSE /\ top_underserved' = NLargest(df, TopCounties, "pop_adjusted_gap")
                 /\ SavePage("top_underserved")
                 /\ pc' = "state_summary"
       ELSE pc' = "state_summary" /\ UNCHANGED <<pages, top_underserved>>
    /\ UNCHANGED <<df, entry, stdout, clinic_presence, top_states>>

\* lines 217-244: the aggregation always yields a population column
StateSummary ==
    /\ pc = "state_summary"
    /\ IF LacksColumn(df, "state_summary")
       THEN pc' = "raised" /\ UNCHANGED <<pages, top_states>>
       ELSE /\ top_states' = TopStateRows(StateStats(df))
            /\ SavePage("state_summary")
            /\ pc' = "recommendations"
    /\ UNCHANGED <<df, entry, stdout, clinic_presence, top_underserved>>

\* lines 246-290
Recommendations ==
    /\ pc = "recommendations"
    /\ SavePage("recommendations")
    /\ pc' = "return"
    /\ UNCHANGED <<df, entry, stdout, clinic_presence, top_underserved, top_states>>

\* lines 292-293
Return ==
    /\ pc = "return"
    /\ stdout' = Append(stdout, "PDF report generated successfully")
    /\ pc' = "done"
    /\ UNCHANGED <<df, entry, pages, clinic_presence, top_underserved, top_states>>

Next ==
    \/ EnsureBurden \/ EnsurePopulation \/ EnsureClinics \/ EnsureNeed \/ EnsureGap
    \/ CoverPage \/ ExecutiveSummary \/ KeyStatistics \/ BoxPlots
    \/ TopUnderserved \/ StateSummary \/ Recommendations \/ Return

Spec == Init /\ [][Next]_vars

-----------------------------------------------------------------------------
(* What the run has done so far.                                            *)

Saved(section) == \E k \in DOMAIN pages : pages[k].name = section

PageNames == [k \in DOMAIN pages |-> pages[k].name]

\* the enrichment (lines 34-56) has run to its end
Enriched ==
    /\ pc \notin {"burden", "population", "clinics", "need", "gap"}
    /\ pc = "raised" => Saved("cover")

Derived(c) == c \notin DOMAIN entry /\ c \in DOMAIN df

Warning == "Warning: Population data not found. Some metrics may be unavailable."

Warnings == Cardinality({k \in DOMAIN stdout : stdout[k] = Warning})

\* the sections saved before control reaches pc, on a run that has not raised
SectionsBefore(at) ==
    CASE at \in {"burden", "population", "clinics", "need", "gap", "cover"} -> 0
      [] at = "executive_summary" -> 1
      [] at = "key_statistics" -> 2
      [] at = "box_plots" -> 3
      [] at = "top_underserved" -> 4
      [] at = "state_summary" -> 5
      [] at = "recommendations" -> 6
      [] at \in {"return", "done"} -> 7

-----------------------------------------------------------------------------
(* C1 *)

\* C1, as stated: once the enrichment has run on a table that has a
\* clinic_count column, the table has all four derived columns.
C1_AllFourDerived ==
    (Enriched /\ "clinic_count" \in DOMAIN entry) => DerivedColumns \subseteq DOMAIN df

\* C1, amended: once the enrichment has run on a table that has a
\* clinic_count column, the table has population and clinics_per_100k; it has
\* health_burden_score exactly when the input had it or had one of the four
\* health variables, health_need exactly when the input had it or
\* health_burden_score is then present, and pop_adjusted_gap exactly when the
\* input had it or health_need is then present.
C1_DerivedWhenDerivable ==
    (Enriched /\ "clinic_count" \in DOMAIN entry) =>
        /\ {"population", "clinics_per_100k"} \subseteq DOMAIN df
        /\ "health_burden_score" \in DOMAIN df <=>
              ("health_burden_score" \in DOMAIN entry \/ HealthVars \cap DOMAIN entry # {})
        /\ "health_need" \in DOMAIN df <=>
              ("health_need" \in DOMAIN entry \/ "health_burden_score" \in DOMAIN df)
        /\ "pop_adjusted_gap" \in DOMAIN df <=>
              ("pop_adjusted_gap" \in DOMAIN entry \/ "health_need" \in DOMAIN df)

\* the enrichment derived all four columns, from one health variable only
C1_Witness ==
    /\ Enriched
    /\ DOMAIN entry \cap (DerivedColumns \cup HealthVars) = {"stroke"}
    /\ DerivedColumns \subseteq DOMAIN df

-----------------------------------------------------------------------------
(* C2 *)

\* C2: a run that reaches its return has saved exactly the seven pages, in
\* the order cover, executive summary, key statistics, box plots, ranking,
\* state summary, recommendations; every section a run has passed saved
\* exactly one page, none was skipped and none repeated.
C2_SevenPagesInOrder ==
    /\ PageNames = SubSeq(Sections, 1, Len(pages))
    /\ pc # "raised" => Len(pages) = SectionsBefore(pc)
    /\ pc = "done" => PageNames = Sections

\* a run returned, and its ranking page came from a derived pop_adjusted_gap
C2_Witness == pc = "done" /\ Derived("pop_adjusted_gap") /\ Len(pages) = 7

-----------------------------------------------------------------------------
(* C3 *)

\* C3, as stated: on return every column of the input table has the values
\* it had on entry.
C3_EveryColumnKept ==
    pc = "done" => \A c \in DOMAIN entry : c \in DOMAIN df /\ df[c] = entry[c]

\* C3, amended: on return every column of the input table other than
\* svi_quartile has the values it had on entry; svi_quartile holds the
\* quartile labels of svi_overall, whether or not the input had the column.
C3_ColumnsKeptButQuartile ==
    pc = "done" =>
        /\ \A c \in DOMAIN entry \ {"svi_quartile"} : c \in DOMAIN df /\ df[c] = entry[c]
        /\ "svi_quartile" \in DOMAIN df
        /\ df["svi_quartile"] = QcutColumn(entry["svi_overall"])

\* a run returned on a table that came with every metric column
C3_Witness ==
    /\ pc = "done"
    /\ DerivedColumns \cup {"population", "svi_quartile"} \subseteq DOMAIN entry

-----------------------------------------------------------------------------
(* C4 *)

NoPopulation == "population" \notin DOMAIN entry /\ pc \notin {"burden", "population"}

DefaultedPopulation ==
    /\ Warnings = 1
    /\ "population" \in DOMAIN df
    /\ \A i \in 1..NRows(df) : df["population"][i] = DefaultPopulation

GapFromDefault ==
    Derived("pop_adjusted_gap") =>
        \A i \in 1..NRows(df) :
            df["pop_adjusted_gap"][i] = QMul(df["health_need"][i], Fin(DefaultPopulation))

\* the binary64 value of the integer n or one of its two neighbours
WithinOneUlp(f, n) ==
    IF n = 0 THEN f = FZero
    ELSE f \in {FromInt(n), FSucc(FromInt(n)), FPred(FromInt(n))}

\* C4, as stated: on a table without a population column the run does not
\* abort in the enrichment; it prints the warning once, sets population to
\* 100000 in every row and goes on, so that a derived clinics_per_100k equals
\* clinic_count and a derived pop_adjusted_gap equals health_need * 100000.
C4_DefaultPopulationExact ==
    NoPopulation =>
        /\ DefaultedPopulation
        /\ pc = "raised" => Saved("cover")
        /\ Derived("clinics_per_100k") =>
              \A i \in 1..NRows(df) :
                  df["clinics_per_100k"][i] = FromInt(df["clinic_count"][i])
        /\ GapFromDefault

\* C4, amended: on a table without a population column the run prints the
\* warning once and sets population to 100000 in every row; the enrichment
\* then raises only if the table has neither clinic_count nor
\* clinics_per_100k; a derived clinics_per_100k is clinic_count up to the
\* rounding of (clinic_count / 100000) * 100000 in binary64, at most one unit
\* in the last place off, and a derived pop_adjusted_gap is
\* health_need * 100000.
C4_DefaultPopulationRounded ==
    NoPopulation =>
        /\ DefaultedPopulation
        /\ (pc = "raised" /\ ~Saved("cover")) =>
              DOMAIN entry \cap {"clinic_count", "clinics_per_100k"} = {}
        /\ Derived("clinics_per_100k") =>
              \A i \in 1..NRows(df) :
                  WithinOneUlp(df["clinics_per_100k"][i], df["clinic_count"][i])
        /\ GapFromDefault

\* the enrichment ran without a population column, derived both columns, and
\* one county's density is not its clinic count
C4_Witness ==
    /\ NoPopulation /\ Enriched
    /\ Derived("clinics_per_100k") /\ Derived("pop_adjusted_gap")
    /\ \E i \in 1..NRows(df) :
          df["clinics_per_100k"][i] # FromInt(df["clinic_count"][i])

-----------------------------------------------------------------------------
(* C5 *)

-----------------------------------------------------------------------------
(* C6 *)

\* C6: a derived health_need is the min-max normalisation of
\* health_burden_score: every county's value is a number in [0, 1], 0 for a
\* county with the least score and 1 for a county with the greatest, also
\* when all counties have the same score.
C6_NeedNormalised ==
    Derived("health_need") =>
        LET score == df["health_burden_score"]
            need == df["health_need"]
        IN \A i \in 1..NRows(df) :
              /\ IsFinite(need[i])
              /\ QLeq(Fin(0), need[i]) /\ QLeq(need[i], Fin(1))
              /\ score[i] = ColumnMin(score) => need[i] = Fin(0)
              /\ score[i] = ColumnMax(score) => need[i] = Fin(1)

-----------------------------------------------------------------------------
(* C7 *)

Listed == {top_underserved[k] : k \in DOMAIN top_underserved}

RankingOrdered ==
    LET gap == df["pop_adjusted_gap"]
    IN /\ \A k \in 1..(Len(top_underserved) - 1) :
              QLeq(gap[top_underserved[k + 1]], gap[top_underserved[k]])
       /\ \A i \in (1..NRows(df)) \ Listed : \A j \in Listed : QLeq(gap[i], gap[j])

\* C7: the ranking page lists min(20, N) counties of the N in the table, in
\* non-increasing order of pop_adjusted_gap, and no county left out has a
\* greater pop_adjusted_gap than a listed one.
C7_RankingTopTwenty ==
    Saved("top_underserved") =>
        /\ Len(top_underserved) = Min(TopCounties, NRows(df))
        /\ Cardinality(Listed) = Len(top_underserved)
        /\ RankingOrdered

\* the same on the tables whose pop_adjusted_gap has no NaN
C7_RankingOfNumbers ==
    (Saved("top_underserved") /\ \A i \in 1..NRows(df) : ~IsNaN(df["pop_adjusted_gap"][i]))
        => /\ Len(top_underserved) = Min(TopCounties, NRows(df))
           /\ Cardinality(Listed) = Len(top_underserved)
           /\ RankingOrdered

-----------------------------------------------------------------------------
(* C8 *)

\* C8: every value of a derived clinics_per_100k is a finite number:
\* clinic_count / population * 100000 where population is not 0, and 0 where
\* population is 0, whatever the clinic_count.
C8_DensityFinite ==
    Derived("clinics_per_100k") =>
        \A i \in 1..NRows(df) :
            LET f == df["clinics_per_100k"][i]
                clinic_count == df["clinic_count"][i]
                population == df["population"][i]
            IN /\ f.k \in {"zero", "num"}
               /\ population # 0 =>
                     f = FMulInt(FDivInt(clinic_count, population), Per100k)
               /\ population = 0 => f = FZero

-----------------------------------------------------------------------------
(* C9 *)

StatesOf(d) == {d["state_full"][i] : i \in 1..NRows(d)}

StateRows(d, st) == {i \in 1..NRows(d) : d["state_full"][i] = st}

\* 100000 * sum of clinic_count / sum of population, 0 for no population
SummedDensity(d, st) ==
    LET clinic_sum == SumRows(d["clinic_count"], StateRows(d, st), NRows(d))
        population_sum == SumRows(d["population"], StateRows(d, st), NRows(d))
    IN IF population_sum = 0 THEN FZero
       ELSE FMulInt(FDivInt(clinic_sum, population_sum), Per100k)

ListedStates == {top_states[k].state_full : k \in DOMAIN top_states}

\* C9: the state page gives each state 100000 * (sum of clinic_count) /
\* (sum of population) over its counties, 0 for a state without population,
\* and lists min(15, S) of the S states in non-increasing order of that
\* density, no state left out having a greater density than a listed one.
C9_StateDensityRanking ==
    Saved("state_summary") =>
        /\ Len(top_states) = Min(TopStates, Cardinality(StatesOf(df)))
        /\ Cardinality(ListedStates) = Len(top_states)
        /\ ListedStates \subseteq StatesOf(df)
        /\ \A k \in DOMAIN top_states :
              top_states[k].clinics_per_100k = SummedDensity(df, top_states[k].state_full)
        /\ \A k \in 1..(Len(top_states) - 1) :
              FLeq(top_states[k + 1].clinics_per_100k, top_states[k].clinics_per_100k)
        /\ \A st \in StatesOf(df) \ ListedStates : \A k \in DOMAIN top_states :
              FLeq(SummedDensity(df, st), top_states[k].clinics_per_100k)

\* the same on the tables where every state has some population
C9_StatesWithPopulation ==
    (/\ Saved("state_summary")
     /\ \A st \in StatesOf(df) :
            SumRows(df["population"], StateRows(df, st), NRows(df)) # 0)
    => C9_StateDensityRanking

====
